---- MODULE Spec2Model ----
(***************************************************************************)
(* Model of the Gitee upload plugin (src/main.ts).                         *)
(*                                                                         *)
(* Strings are sequences of tokens: "" is <<>>, "/" is <<"/">>, a          *)
(* template literal is the concatenation of its pieces.  MIME types are    *)
(* sequences of characters, since the code searches them for a substring.  *)
(* An optional value (undefined / null / a missing item) is a sequence of  *)
(* length 0 (absent) or 1 (present).                                       *)
(***************************************************************************)
EXTENDS Integers, Sequences, FiniteSets, Bags, TLC

VARIABLES
  settings,      \* MyPlugin.settings, shared by reference with modals and runs
  data,          \* the plugin's persisted data (loadData / saveData)
  localStorage,  \* the item 'filePath' of localStorage: <<>> or <<value>>
  modals,        \* the SampleModal objects created so far
  runs,          \* the calls of uploadToGitee made so far
  editor,        \* the calls of editor.replaceSelection made so far (a bag)
  event,         \* the flags of the last paste/drop event uploadFiles handled
  lastKey,       \* history: the value of the last onChange of any prompt
  clipboard,     \* the files the user has copied or is dragging
  loads          \* history: the number of calls of loadSettings

vars ==
  <<settings, data, localStorage, modals, runs, editor, event, lastKey, clipboard,
    loads>>

---------------------------------------------------------------------------
(* Bounds of the model *)

MaxFiles == 2     \* files in one paste/drop event
MaxRuns == 2      \* calls of uploadToGitee
MaxModals == 2    \* prompts opened
MaxLoads == 2     \* calls of onload (the first one and the restarts)

---------------------------------------------------------------------------
(* Values *)

None == <<>>
Some(v) == <<v>>

\* 1024 * 1024 * 10, the size limit of uploadToGitee
MaxSize == 1024 * 1024 * 10

DEFAULT_SETTINGS ==
  [repo |-> <<>>, branch |-> <<"master">>, path |-> <<"/">>, token |-> <<>>,
   subPathable |-> TRUE]

\* The files an event can carry.
aPng == [name |-> "a.png", size |-> 1024 * 1024 * 5,
         type |-> <<"i","m","a","g","e","/","p","n","g">>]
bPdf == [name |-> "b.pdf", size |-> MaxSize + 1,
         type |-> <<"a","p","p","l","i","c","a","t","i","o","n","/","p","d","f">>]
cTxt == [name |-> "c.txt", size |-> MaxSize,
         type |-> <<"t","e","x","t","/","p","l","a","i","n">>]
dDmg == [name |-> "d.dmg", size |-> 1024,
         type |-> <<"a","p","p","l","i","c","a","t","i","o","n","/","x","-",
                    "d","i","s","k","i","m","a","g","e">>]

eZip == [name |-> "e.zip", size |-> 1024 * 1024 * 15,
         type |-> <<"a","p","p","l","i","c","a","t","i","o","n","/","z","i","p">>]

\* The batches an event can carry: those of at most MaxFiles files.
Batches ==
  {<<aPng>>, <<bPdf>>, <<cTxt>>, <<dDmg>>,
   <<aPng, bPdf>>, <<bPdf, cTxt>>, <<bPdf, eZip>>, <<aPng, cTxt>>,
   <<aPng, bPdf, cTxt>>, <<cTxt, dDmg, eZip>>}
FileLists == {fl \in Batches : Len(fl) <= MaxFiles}

Repos == {<<>>, <<"owner/repo">>}
Branches == {<<"master">>, <<"dev">>}
Paths == {<<"/">>, <<"img">>}
Tokens == {<<>>, <<"tok">>}
SubPaths == {<<>>, <<"images">>}

\* What loadData can return at startup: nothing, or an object with some fields.
PersistedData ==
  {None,
   [k \in {"subPathable"} |-> FALSE],
   [k \in {"repo", "path", "subPathable"} |->
      CASE k = "repo" -> <<"owner/repo">>
        [] k = "path" -> <<"img">>
        [] k = "subPathable" -> FALSE]}

---------------------------------------------------------------------------
(* Pure functions *)

\* Mutant of ObjectAssign: a stored value that is falsy ('' or false) does
\* not replace the default (b[k] || a[k]).
ObjectAssign_Truthy(a, b) ==
  [k \in (DOMAIN a) \cup (DOMAIN b) |->
     IF k \in DOMAIN b /\ (IF k = "subPathable" THEN b[k] ELSE b[k] # <<>>)
     THEN b[k] ELSE a[k]]

\* Object.assign({}, a, b)
ObjectAssign(a, b) ==
  [k \in (DOMAIN a) \cup (DOMAIN b) |-> IF k \in DOMAIN b THEN b[k] ELSE a[k]]

\* String.prototype.includes
Includes(s, sub) ==
  \E i \in 1..(Len(s) - Len(sub) + 1) : SubSeq(s, i, i + Len(sub) - 1) = sub

\* Array.prototype.join
RECURSIVE Join(_, _)
Join(arr, sep) ==
  IF Len(arr) = 0 THEN <<>>
  ELSE IF Len(arr) = 1 THEN arr[1]
  ELSE arr[1] \o sep \o Join(Tail(arr), sep)

\* Array.prototype.map(file => file.name), each name a string of one token
Names(fl) == [i \in 1..Len(fl) |-> <<fl[i].name>>]

---------------------------------------------------------------------------
(* uploadToGitee: the pieces of one call *)

\* file => file.size > 1024 * 1024 * 10
TooLarge(file) == file.size > MaxSize

\* Mutant of Accepted: a file of exactly the limit is not uploaded.
Accepted_Below(file) == file.size < MaxSize

\* file => file.size <= 1024 * 1024 * 10
Accepted(file) == file.size <= MaxSize

\* The notice of the files that are too large: "files may not exceed 10MB,
\* <names joined by a comma> will be dropped".
TooLargeNotice(tooLargeFiles) ==
  [kind |-> "tooLarge", slot |-> 0,
   text |-> <<"size>10MB:">> \o Join(Names(tooLargeFiles), <<",">>) \o <<":dropped">>]

\* The notice of a failed read: "reading file <name> failed".
ReadNotice(i, file) ==
  [kind |-> "read", slot |-> i, text |-> <<"read:", file.name, ":failed">>]

\* The notice of a failed upload: "uploading <name> failed, reason: <message>".
\* err.response is present here.
UploadNotice(i, file, err) ==
  [kind |-> "upload", slot |-> i,
   text |-> <<"upload:", file.name, ":failed:">> \o err.response[1].data.message]

\* The URL of axios.post.
RequestUrl(s, filePath, file) ==
  <<"https://gitee.com/api/v5/repos/">> \o s.repo \o <<"/contents/">>
    \o s.path \o <<"/">> \o filePath \o <<"/">> \o <<file.name>>

\* The request of axios.post.
Request(s, filePath, file) ==
  [url |-> RequestUrl(s, filePath, file), access_token |-> s.token,
   message |-> <<"upload image">>]

\* The value the then handler resolves with.
SuccessText(file, res) ==
  IF Includes(file.type, <<"i","m","a","g","e">>)
  THEN <<"![", file.name, "](">> \o res.data.content.download_url \o <<")">>
  ELSE res.data.content.download_url

\* Mutant of PromiseAllSet: the values are kept in the order of completion.
PromiseAllSet_Completion(results, i, v) ==
  LET k == CHOOSE j \in 1..Len(results) :
             results[j] = None /\ \A l \in 1..(j - 1) : results[l] # None
  IN [results EXCEPT ![k] = Some(v)]

\* Promise.all keeps the value of the i-th promise at index i.
PromiseAllSet(results, i, v) == [results EXCEPT ![i] = Some(v)]

\* Mutant of FilterTruthy: the empty results are kept.
FilterTruthy_Keep(res) == res

\* res.filter(x => x)
FilterTruthy(res) == SelectSeq(res, LAMBDA x : x # <<>>)

\* res.filter(x => x).join('\n')
JoinedText(res) == Join(FilterTruthy(res), <<"\n">>)

\* The state of a call of uploadToGitee when it returns.
NewRun(modal, fileList, filePath) ==
  LET tooLargeFiles == SelectSeq(fileList, TooLarge)
      files == SelectSeq(fileList, Accepted)
  IN [modal |-> modal, fileList |-> fileList, filePath |-> filePath,
      tooLargeFiles |-> tooLargeFiles, files |-> files,
      notices |-> IF Len(tooLargeFiles) # 0
                  THEN SetToBag({TooLargeNotice(tooLargeFiles)}) ELSE EmptyBag,
      slots |-> [i \in 1..Len(files) |->
                  [state |-> "reading", request |-> None, posts |-> 0,
                   settled |-> None]],
      results |-> [i \in 1..Len(files) |-> None],
      order |-> <<>>,
      done |-> FALSE]

\* The array Promise.all resolves with.
Res(run) == [i \in 1..Len(run.results) |-> run.results[i][1]]

AllResolved(run) == \A i \in 1..Len(run.results) : run.results[i] # None

\* The then callback of the promise uploadToGitee returned: it runs, in the
\* same turn of the event loop, once every promise of the call has resolved.
\* ms and rs are the modals and the runs as the caller leaves them.
ThenCallback(ms, rs, r) ==
  IF AllResolved(rs[r])
  THEN /\ runs' = [rs EXCEPT ![r].done = TRUE]
       /\ editor' = editor (+) SetToBag({[run |-> r, text |-> JoinedText(Res(rs[r]))]})
       /\ modals' = IF rs[r].modal # 0
                    THEN [ms EXCEPT ![rs[r].modal].open = FALSE]
                    ELSE ms
  ELSE /\ runs' = rs
       /\ modals' = ms
       /\ UNCHANGED editor

\* uploadToGitee(fileList, settings, filePath).then(...) as uploadFiles calls
\* it: modal is 0, no modal belongs to the run.
UploadToGitee(modal, fileList, filePath) ==
  /\ Len(runs) < MaxRuns
  /\ ThenCallback(modals, Append(runs, NewRun(modal, fileList, filePath)),
                  Len(runs) + 1)

\* resolve(v) of the i-th promise of run r, with the notices shown before it
\* (the notices of a run are kept as a bag, and the order in which its
\* promises resolved as history);
\* how is what the callback got: the response, the error or the read error.
Resolve(r, i, v, shown, how) ==
  ThenCallback(modals,
               [runs EXCEPT ![r].slots[i].state = "resolved",
                     ![r].slots[i].settled = Some(how),
                     ![r].results = PromiseAllSet(@, i, v),
                     ![r].order = Append(@, i),
                     ![r].notices = @ (+) shown], r)

\* JSON.stringify and JSON.parse of saveData and loadData: an object of
\* strings and booleans keeps its own properties, '' and false included.
Stored(obj) == [k \in DOMAIN obj |-> obj[k]]

\* Mutant of LoadSettings: the stored object is taken as it is, without the
\* defaults.
LoadSettings_Stored(stored) == Stored(stored)

\* loadSettings
LoadSettings(stored) == ObjectAssign(DEFAULT_SETTINGS, stored)

---------------------------------------------------------------------------
(* The state after construction and onload *)

Init ==
  /\ data \in PersistedData
  /\ settings = LoadSettings(data)
  /\ localStorage \in {None, Some(<<"images">>)}
  /\ modals = <<>>
  /\ runs = <<>>
  /\ editor = EmptyBag
  /\ event = None
  /\ lastKey = None
  /\ clipboard \in FileLists
  /\ loads = 1

---------------------------------------------------------------------------
(* MyPlugin *)

\* The application is started again: onload loads the settings into a new
\* plugin; the modals, the pending uploads and the editor session are gone,
\* the persisted data and localStorage stay.
Onload ==
  /\ loads < MaxLoads
  /\ loads' = loads + 1
  /\ settings' = LoadSettings(data)
  /\ modals' = <<>>
  /\ runs' = <<>>
  /\ editor' = EmptyBag
  /\ event' = None
  /\ UNCHANGED <<data, localStorage, lastKey, clipboard>>

\* this.filePath = localStorage.getItem('filePath') || ''
InitialFilePath == IF localStorage = None THEN <<>> ELSE localStorage[1]

\* new SampleModal(app, files, editor, settings), as open() leaves it
\* submits is history: the number of activations of the upload button.
NewModal(fileList) ==
  [fileList |-> fileList, filePath |-> InitialFilePath,
   open |-> TRUE, submits |-> 0]

\* Mutant of UploadFiles: only an absent file list returns early (!files).
UploadFiles_Absent(files) ==
  IF files = None
  THEN /\ event' = Some([defaultPrevented |-> FALSE, propagationStopped |-> FALSE])
       /\ UNCHANGED <<settings, data, localStorage, modals, runs, editor, lastKey,
                      clipboard, loads>>
  ELSE /\ event' = Some([defaultPrevented |-> TRUE, propagationStopped |-> TRUE])
       /\ IF settings.subPathable
          THEN /\ Len(modals) < MaxModals
               /\ modals' = Append(modals, NewModal(files[1]))
               /\ UNCHANGED <<runs, editor>>
          ELSE UploadToGitee(0, files[1], <<>>)
       /\ UNCHANGED <<settings, data, localStorage, lastKey, clipboard, loads>>

\* Mutant of UploadFiles: the event goes by the flag of DEFAULT_SETTINGS, not
\* by the one of this.settings.
UploadFiles_DefaultFlag(files) ==
  IF files = None \/ Len(files[1]) = 0
  THEN /\ event' = Some([defaultPrevented |-> FALSE, propagationStopped |-> FALSE])
       /\ UNCHANGED <<settings, data, localStorage, modals, runs, editor, lastKey,
                      clipboard, loads>>
  ELSE /\ event' = Some([defaultPrevented |-> TRUE, propagationStopped |-> TRUE])
       /\ IF DEFAULT_SETTINGS.subPathable
          THEN /\ Len(modals) < MaxModals
               /\ modals' = Append(modals, NewModal(files[1]))
               /\ UNCHANGED <<runs, editor>>
          ELSE UploadToGitee(0, files[1], <<>>)
       /\ UNCHANGED <<settings, data, localStorage, lastKey, clipboard, loads>>

\* uploadFiles(files, event, editor); files is None when the event has no
\* clipboardData / dataTransfer.
UploadFiles(files) ==
  IF files = None \/ Len(files[1]) = 0
  THEN /\ event' = Some([defaultPrevented |-> FALSE, propagationStopped |-> FALSE])
       /\ UNCHANGED <<settings, data, localStorage, modals, runs, editor, lastKey,
                      clipboard, loads>>
  ELSE /\ event' = Some([defaultPrevented |-> TRUE, propagationStopped |-> TRUE])
       /\ IF settings.subPathable
          THEN /\ Len(modals) < MaxModals
               /\ modals' = Append(modals, NewModal(files[1]))
               /\ UNCHANGED <<runs, editor>>
          ELSE UploadToGitee(0, files[1], <<>>)
       /\ UNCHANGED <<settings, data, localStorage, lastKey, clipboard, loads>>

\* What an event carries: no file list, an empty one (text), or the files.
EventFiles == {None, Some(<<>>), Some(clipboard)}

\* An open modal covers the workspace and holds the focus: the editor gets
\* no paste and no drop until the modal is closed.
EditorReachable == \A m \in 1..Len(modals) : ~modals[m].open

\* 'editor-paste': uploadFiles(event.clipboardData?.files, event, editor)
EditorPaste ==
  /\ EditorReachable
  /\ \E files \in EventFiles : UploadFiles(files)

\* 'editor-drop': uploadFiles(event.dataTransfer?.files, event, editor)
EditorDrop ==
  /\ EditorReachable
  /\ \E files \in EventFiles : UploadFiles(files)

---------------------------------------------------------------------------
(* SampleModal *)

\* Mutant of OnChange: the value is kept in the modal and not stored.
OnChange_NoStore(m, value) ==
  /\ modals[m].open
  /\ modals' = [modals EXCEPT ![m].filePath = value]
  /\ lastKey' = Some(value)
  /\ UNCHANGED <<settings, data, localStorage, runs, editor, event, clipboard, loads>>

\* onChange of the text field
OnChange(m, value) ==
  /\ modals[m].open
  /\ modals' = [modals EXCEPT ![m].filePath = value]
  /\ localStorage' = Some(value)
  /\ lastKey' = Some(value)
  /\ UNCHANGED <<settings, data, runs, editor, event, clipboard, loads>>

\* Mutant of OnClick: this.close() is called after uploadToGitee(...).then(...),
\* not inside the callback of then.
OnClick_CloseFirst(m) ==
  /\ modals[m].open
  /\ Len(runs) < MaxRuns
  /\ LET rs == Append(runs, NewRun(m, modals[m].fileList, modals[m].filePath))
         r == Len(runs) + 1
     IN /\ runs' = [rs EXCEPT ![r].done = AllResolved(rs[r])]
        /\ editor' = IF AllResolved(rs[r])
                      THEN editor (+) SetToBag({[run |-> r,
                                                 text |-> JoinedText(Res(rs[r]))]})
                      ELSE editor
  /\ modals' = [modals EXCEPT ![m].open = FALSE, ![m].submits = @ + 1]
  /\ UNCHANGED <<settings, data, localStorage, event, lastKey, clipboard, loads>>

\* onClick of the upload button: uploadToGitee(...).then(...)
OnClick(m) ==
  /\ modals[m].open
  /\ Len(runs) < MaxRuns
  /\ ThenCallback([modals EXCEPT ![m].submits = @ + 1],
                  Append(runs, NewRun(m, modals[m].fileList, modals[m].filePath)),
                  Len(runs) + 1)
  /\ UNCHANGED <<settings, data, localStorage, event, lastKey, clipboard, loads>>

\* Mutant of OnClose: the dismissal uploads the files of the modal.
OnClose_Upload(m) ==
  /\ modals[m].open
  /\ Len(runs) < MaxRuns
  /\ modals' = [modals EXCEPT ![m].open = FALSE]
  /\ runs' = Append(runs, NewRun(m, modals[m].fileList, modals[m].filePath))
  /\ UNCHANGED <<settings, data, localStorage, editor, event, lastKey, clipboard,
                 loads>>

\* The user dismisses the modal; onClose empties it.
OnClose(m) ==
  /\ modals[m].open
  /\ modals' = [modals EXCEPT ![m].open = FALSE]
  /\ UNCHANGED <<settings, data, localStorage, runs, editor, event, lastKey, clipboard, loads>>

---------------------------------------------------------------------------
(* The callbacks of one file of a run *)

\* Mutant of Reading: the files are read one after the other, a read
\* calling back only when the files before it have settled.
Reading_InTurn(r, i) ==
  /\ r \in 1..Len(runs)
  /\ i \in 1..Len(runs[r].files)
  /\ runs[r].slots[i].state = "reading"
  /\ \A j \in 1..(i - 1) : runs[r].slots[j].state = "resolved"

\* The read of the i-th file of run r has been started and has not called back.
Reading(r, i) ==
  /\ r \in 1..Len(runs)
  /\ i \in 1..Len(runs[r].files)
  /\ runs[r].slots[i].state = "reading"

Posting(r, i) ==
  /\ r \in 1..Len(runs)
  /\ i \in 1..Len(runs[r].files)
  /\ runs[r].slots[i].state = "posting"

\* reader.onload: axios.post with the settings as they are now; posts counts
\* the calls of axios.post for the file.
ReaderOnLoad(r, i) ==
  /\ Reading(r, i)
  /\ runs' = [runs EXCEPT
       ![r].slots[i].state = "posting",
       ![r].slots[i].posts = @ + 1,
       ![r].slots[i].request = Some(Request(settings, runs[r].filePath,
                                            runs[r].files[i]))]
  /\ UNCHANGED <<settings, data, localStorage, modals, editor, event, lastKey,
                 clipboard, loads>>

\* reader.onerror
ReaderOnError(r, i) ==
  /\ Reading(r, i)
  /\ Resolve(r, i, <<>>, SetToBag({ReadNotice(i, runs[r].files[i])}), [readError |-> TRUE])
  /\ UNCHANGED <<settings, data, localStorage, event, lastKey, clipboard, loads>>

\* The responses of the server for a file.
DownloadUrl(file) == <<"https://x/", file.name>>
Responses(file) == {[data |-> [content |-> [download_url |-> DownloadUrl(file)]]]}

\* The errors axios rejects with: a response of the server carrying a
\* message, or no response at all (a network error).
Errors ==
  {[response |-> Some([data |-> [message |-> <<"quota exceeded">>]])],
   [response |-> None]}

\* .then(res => ...)
AxiosThen(r, i) ==
  /\ Posting(r, i)
  /\ \E res \in Responses(runs[r].files[i]) :
       Resolve(r, i, SuccessText(runs[r].files[i], res), EmptyBag, [res |-> res])
  /\ UNCHANGED <<settings, data, localStorage, event, lastKey, clipboard, loads>>

\* Mutant of AxiosCatch: a request the server refused is sent once more.
AxiosCatch_Retry(r, i) ==
  /\ Posting(r, i)
  /\ \E err \in Errors :
       IF err.response = None
       THEN /\ runs' = [runs EXCEPT ![r].slots[i].state = "thrown",
                                     ![r].slots[i].settled = Some([err |-> err])]
            /\ UNCHANGED <<editor, modals>>
       ELSE IF runs[r].slots[i].posts < 2
       THEN /\ runs' = [runs EXCEPT ![r].slots[i].posts = @ + 1]
            /\ UNCHANGED <<editor, modals>>
       ELSE Resolve(r, i, <<>>, SetToBag({UploadNotice(i, runs[r].files[i], err)}),
                    [err |-> err])
  /\ UNCHANGED <<settings, data, localStorage, event, lastKey, clipboard, loads>>

\* .catch(err => ...): reading err.response.data.message throws when there is
\* no response, before the notice is made and before resolve('') is called.
AxiosCatch(r, i) ==
  /\ Posting(r, i)
  /\ \E err \in Errors :
       IF err.response = None
       THEN /\ runs' = [runs EXCEPT ![r].slots[i].state = "thrown",
                                     ![r].slots[i].settled = Some([err |-> err])]
            /\ UNCHANGED <<editor, modals>>
       ELSE Resolve(r, i, <<>>, SetToBag({UploadNotice(i, runs[r].files[i], err)}),
                    [err |-> err])
  /\ UNCHANGED <<settings, data, localStorage, event, lastKey, clipboard, loads>>

---------------------------------------------------------------------------
(* SampleSettingTab: the onChange handlers, each followed by saveSettings *)

SetSetting(field, value) ==
  /\ settings[field] # value
  /\ settings' = [settings EXCEPT ![field] = value]
  /\ data' = Stored(settings')
  /\ UNCHANGED <<localStorage, modals, runs, editor, event, lastKey, clipboard, loads>>

SetRepo == \E v \in Repos : SetSetting("repo", v)
SetBranch == \E v \in Branches : SetSetting("branch", v)
SetPath == \E v \in Paths : SetSetting("path", v)
SetToken == \E v \in Tokens : SetSetting("token", v)
SetSubPathable == \E v \in BOOLEAN : SetSetting("subPathable", v)

---------------------------------------------------------------------------
(* Specifications *)

Slots == (1..MaxRuns) \X (1..MaxFiles)

NextUpload ==
  \/ EditorPaste
  \/ EditorDrop
  \/ \E m \in 1..Len(modals) : \E value \in SubPaths : OnChange(m, value)
  \/ \E m \in 1..Len(modals) : OnClick(m)
  \/ \E m \in 1..Len(modals) : OnClose(m)
  \/ \E s \in Slots : ReaderOnLoad(s[1], s[2])
  \/ \E s \in Slots : ReaderOnError(s[1], s[2])
  \/ \E s \in Slots : AxiosThen(s[1], s[2])
  \/ \E s \in Slots : AxiosCatch(s[1], s[2])

NextSettings ==
  \/ SetRepo
  \/ SetBranch
  \/ SetPath
  \/ SetToken
  \/ SetSubPathable

Next == NextUpload \/ NextSettings \/ Onload

\* Events, dismissals, the settings tab and restarts: the dispatch of
\* uploadFiles and the configuration, without the progress of the uploads.
NextConfig ==
  \/ EditorPaste
  \/ EditorDrop
  \/ \E m \in 1..Len(modals) : OnClose(m)
  \/ NextSettings
  \/ Onload

\* The requests of the batches while repo, path and token are edited in the
\* settings tab.
NextBatch ==
  \/ EditorPaste
  \/ EditorDrop
  \/ \E m \in 1..Len(modals) : OnClick(m)
  \/ \E m \in 1..Len(modals) : OnClose(m)
  \/ \E s \in Slots : ReaderOnLoad(s[1], s[2])
  \/ SetRepo
  \/ SetPath
  \/ SetToken

\* The user has a batch with two accepted files to paste or drop.
InitBatch ==
  /\ Init
  /\ localStorage = None
  /\ Len(SelectSeq(clipboard, Accepted)) = 2

\* The upload pipeline under a configuration that does not change.
Spec == Init /\ [][NextUpload]_vars

\* The settings tab and the dispatch of the events.
SpecSettings == Init /\ [][NextConfig]_vars

\* The settings tab and the requests of a batch.
SpecBatch == InitBatch /\ [][NextBatch]_vars

\* Every file read and every HTTP request eventually calls back.
CallbacksArrive ==
  \A s \in Slots :
    /\ WF_vars(ReaderOnLoad(s[1], s[2]) \/ ReaderOnError(s[1], s[2]))
    /\ WF_vars(AxiosThen(s[1], s[2]) \/ AxiosCatch(s[1], s[2]))

FairSpec == Spec /\ CallbacksArrive

---------------------------------------------------------------------------
(* Properties *)

RunIds == 1..Len(runs)
SlotIds(r) == 1..Len(runs[r].files)

\* The calls of replaceSelection made for run r.
Insertions(r) == {e \in BagToSet(editor) : e.run = r}

\* C1: once uploadToGitee has started for a batch, and every read and request
\* calls back, every per-file operation settles and the joined result of the
\* batch is inserted, whatever the outcomes of the files.
C1_BatchCompletes ==
  \A r \in 1..MaxRuns :
    [](r \in RunIds =>
         <>(/\ r \in RunIds
            /\ \A i \in SlotIds(r) : runs[r].results[i] # None
            /\ Insertions(r) # {}))

\* Whether sequence s starts with sequence pre.
StartsWith(s, pre) == Len(s) >= Len(pre) /\ SubSeq(s, 1, Len(pre)) = pre

\* Whether x is an element of sequence s.
InSeq(x, s) == \E k \in 1..Len(s) : s[k] = x

\* The slots of run r whose upload succeeded: the then handler got a response.
Succeeded(r, i) ==
  /\ runs[r].slots[i].settled # None
  /\ "res" \in DOMAIN runs[r].slots[i].settled[1]

\* The slots whose request failed: the catch handler got an error.
UploadFailed(r, i) ==
  /\ runs[r].slots[i].settled # None
  /\ "err" \in DOMAIN runs[r].slots[i].settled[1]

\* The slots whose read failed: reader.onerror was called.
ReadFailed(r, i) ==
  /\ runs[r].slots[i].settled # None
  /\ "readError" \in DOMAIN runs[r].slots[i].settled[1]

\* C2: a successful upload of a file whose MIME type starts with image/
\* results in exactly ![<name>](<download_url>), and every other successful
\* upload in exactly <download_url>.
C2_ResultByMimePrefix ==
  \A r \in RunIds : \A i \in SlotIds(r) :
    Succeeded(r, i) =>
      LET file == runs[r].files[i]
          url == runs[r].slots[i].settled[1].res.data.content.download_url
      IN runs[r].results[i] =
           Some(IF StartsWith(file.type, <<"i","m","a","g","e","/">>)
                THEN <<"![", file.name, "](">> \o url \o <<")">>
                ELSE url)

\* C3: the files of a batch are partitioned by the limit of 10 MiB: a file is
\* accepted iff its size is at most the limit and rejected iff it is larger,
\* each file is in exactly one of the two lists, and reads and requests are
\* started for accepted files only.
C3_PartitionBySize ==
  \A r \in RunIds :
    /\ \A k \in 1..Len(runs[r].fileList) :
         LET file == runs[r].fileList[k]
         IN /\ InSeq(file, runs[r].files) <=> file.size <= 10 * 1024 * 1024
            /\ InSeq(file, runs[r].tooLargeFiles) <=> file.size > 10 * 1024 * 1024
            /\ InSeq(file, runs[r].files) # InSeq(file, runs[r].tooLargeFiles)
    /\ Len(runs[r].slots) = Len(runs[r].files)
    /\ \A i \in SlotIds(r) :
         /\ InSeq(runs[r].files[i], runs[r].fileList)
         /\ runs[r].files[i].size <= 10 * 1024 * 1024
         /\ runs[r].slots[i].request # None =>
              runs[r].slots[i].request[1].url[Len(runs[r].slots[i].request[1].url)]
                = runs[r].files[i].name

\* A batch with a file of exactly 10 MiB and a larger one: the first has been
\* read and posted, the second was rejected.
C3_Witness ==
  \E r \in RunIds :
    /\ \E k \in 1..Len(runs[r].tooLargeFiles) :
         runs[r].tooLargeFiles[k].size = MaxSize + 1
    /\ \E i \in SlotIds(r) :
         /\ runs[r].files[i].size = MaxSize
         /\ runs[r].slots[i].request # None

\* The number of copies in bag B of the elements of S.
RECURSIVE CountIn(_, _)
CountIn(B, S) ==
  IF S = {} THEN 0
  ELSE LET e == CHOOSE x \in S : TRUE
       IN CopiesIn(e, B) + CountIn(B, S \ {e})

\* The number of notices of run r that satisfy Test.
NoticeCount(r, Test(_)) ==
  CountIn(runs[r].notices, {n \in BagToSet(runs[r].notices) : Test(n)})

IsTooLargeNotice(n) == n.kind = "tooLarge"

\* The notices shown for the files that are too large, over the runs rs.
RECURSIVE TooLargeNoticeCount(_)
TooLargeNoticeCount(rs) ==
  IF rs = {} THEN 0
  ELSE LET r == CHOOSE x \in rs : TRUE
       IN NoticeCount(r, IsTooLargeNotice) + TooLargeNoticeCount(rs \ {r})

\* The files of a file list that are larger than 10 MiB.
Rejected(fl) == {fl[k] : k \in {j \in 1..Len(fl) : fl[j].size > 10 * 1024 * 1024}}

\* The runs rs, all of one batch fl, showed one notice that lists every
\* rejected file if a file is rejected, and none otherwise.
OneNoticeIfRejected(rs, fl) ==
  /\ TooLargeNoticeCount(rs) = IF Rejected(fl) # {} THEN 1 ELSE 0
  /\ \A r \in rs : \A n \in BagToSet(runs[r].notices) :
       IsTooLargeNotice(n) => \A f \in Rejected(fl) : InSeq(f.name, n.text)

\* C4: a batch (the files of one paste or drop event) shows 0 or 1 notice of
\* oversized files: 1 exactly when a file is rejected, listing all rejected
\* files; on the direct path and on the prompted path, whatever the user does
\* in the prompt.
C4_OneNoticePerBatch ==
  /\ \A r \in RunIds : runs[r].modal = 0 => OneNoticeIfRejected({r}, runs[r].fileList)
  /\ \A m \in 1..Len(modals) :
       LET rs == {r \in RunIds : runs[r].modal = m}
       IN rs # {} => OneNoticeIfRejected(rs, modals[m].fileList)

\* The notices shown for slot i of run r.
SlotNotices(r, i) ==
  {n \in BagToSet(runs[r].notices) : n.slot = i}

SlotNoticeCount(r, i) ==
  LET OfSlot(n) == n.slot = i IN NoticeCount(r, OfSlot)

\* C5: a file whose upload fails, by a network error or by a response of the
\* API that is not a success, gets exactly one notice naming it (with the
\* message of the server when there is one) and the result ''; a file whose
\* read fails gets exactly one notice naming it, the result '' and no
\* request; the other files of the batch keep their results.
C5_FailureIsSoft ==
  \A r \in RunIds : \A i \in SlotIds(r) :
    LET file == runs[r].files[i]
        slot == runs[r].slots[i]
    IN /\ UploadFailed(r, i) =>
            /\ SlotNoticeCount(r, i) = 1
            /\ \A n \in SlotNotices(r, i) :
                 /\ InSeq(file.name, n.text)
                 /\ slot.settled[1].err.response # None =>
                      InSeq(slot.settled[1].err.response[1].data.message[1], n.text)
            /\ runs[r].results[i] = Some(<<>>)
       /\ ReadFailed(r, i) =>
            /\ SlotNoticeCount(r, i) = 1
            /\ \A n \in SlotNotices(r, i) : InSeq(file.name, n.text)
            /\ runs[r].results[i] = Some(<<>>)
            /\ slot.request = None
       /\ Succeeded(r, i) =>
            /\ SlotNoticeCount(r, i) = 0
            /\ runs[r].results[i] # Some(<<>>)

\* The non-empty elements of res joined by newlines, left to right.
RECURSIVE NonEmptyLines(_)
NonEmptyLines(res) ==
  IF Len(res) = 0 THEN <<>>
  ELSE LET before == NonEmptyLines(SubSeq(res, 1, Len(res) - 1))
           last == res[Len(res)]
       IN IF last = <<>> THEN before
          ELSE IF before = <<>> THEN last
          ELSE before \o <<"\n">> \o last

\* C6: the text inserted for a batch is exactly its non-empty results joined
\* by single newlines: a failed read or upload contributes '', which is
\* dropped before the join and leaves no blank line; filtering twice changes
\* nothing; when every file fails or is rejected the text is ''.
C6_InsertedText ==
  \A e \in BagToSet(editor) :
    LET run == runs[e.run]
        res == Res(run)
    IN /\ AllResolved(run)
       /\ e.text = NonEmptyLines(res)
       /\ \A i \in SlotIds(e.run) :
            (UploadFailed(e.run, i) \/ ReadFailed(e.run, i)) => res[i] = <<>>
       /\ FilterTruthy(FilterTruthy(res)) = FilterTruthy(res)
       /\ Join(FilterTruthy(FilterTruthy(res)), <<"\n">>) = e.text
       /\ (\A i \in SlotIds(e.run) : ~Succeeded(e.run, i)) => e.text = <<>>
       /\ e.text # <<>> => e.text[1] # "\n" /\ e.text[Len(e.text)] # "\n"
       /\ \A k \in 1..(Len(e.text) - 1) : ~(e.text[k] = "\n" /\ e.text[k + 1] = "\n")

\* A batch of two accepted files, one failed and one uploaded, was inserted.
C6_Witness ==
  \E e \in BagToSet(editor) :
    /\ e.text # <<>>
    /\ \E i \in SlotIds(e.run) : UploadFailed(e.run, i) \/ ReadFailed(e.run, i)
    /\ \E i \in SlotIds(e.run) : Succeeded(e.run, i)

\* The first index of token t in text s, or 0.
IndexOf(s, t) ==
  IF InSeq(t, s) THEN CHOOSE k \in 1..Len(s) : s[k] = t /\ \A j \in 1..(k - 1) : s[j] # t
  ELSE 0

\* C7: in whatever order the reads and the responses of a batch complete,
\* result i is the result of the i-th accepted file, and the results appear
\* in the joined text in the order of the file list.
C7_FileListOrder ==
  \A r \in RunIds :
    /\ \A i \in SlotIds(r) :
         (runs[r].results[i] # None /\ runs[r].results[i] # Some(<<>>)) =>
            \A j \in SlotIds(r) :
              InSeq(runs[r].files[j].name, runs[r].results[i][1]) <=> j = i
    /\ \A e \in Insertions(r) : \A i, j \in SlotIds(r) :
         (i < j /\ Succeeded(r, i) /\ Succeeded(r, j)) =>
            /\ IndexOf(e.text, runs[r].files[i].name) > 0
            /\ IndexOf(e.text, runs[r].files[i].name)
                 < IndexOf(e.text, runs[r].files[j].name)

\* Both files of a batch were uploaded, the second completing first, and the
\* text was inserted.
C7_Witness ==
  \E r \in RunIds :
    /\ Insertions(r) # {}
    /\ Len(runs[r].files) = 2
    /\ runs[r].order = <<2, 1>>
    /\ Succeeded(r, 1) /\ Succeeded(r, 2)

\* C8: a paste or drop whose file list is empty or absent does nothing: the
\* default action and the propagation are not suppressed, no modal opens, no
\* run starts and the editor is untouched.  With at least one file both are
\* suppressed and the event goes to exactly one of the prompt and the direct
\* upload.
C8_EventDispatch ==
  [][\A files \in EventFiles :
       UploadFiles(files) =>
         IF files = None \/ files = Some(<<>>)
         THEN /\ event' = Some([defaultPrevented |-> FALSE,
                                propagationStopped |-> FALSE])
              /\ UNCHANGED <<modals, runs, editor, localStorage, settings>>
         ELSE /\ event'[1].defaultPrevented
              /\ event'[1].propagationStopped
              /\ editor' = editor \/ (\A i \in 1..Len(files[1]) : TooLarge(files[1][i]))
              /\ \/ /\ Len(modals') = Len(modals) + 1
                    /\ modals'[Len(modals')].open
                    /\ modals'[Len(modals')].fileList = files[1]
                    /\ runs' = runs
                 \/ /\ Len(runs') = Len(runs) + 1
                    /\ runs'[Len(runs')].modal = 0
                    /\ runs'[Len(runs')].fileList = files[1]
                    /\ modals' = modals]_vars

\* An event whose files were all rejected: it was suppressed, it went to the
\* direct upload, and the empty text was inserted.
C8_Witness ==
  /\ event = Some([defaultPrevented |-> TRUE, propagationStopped |-> TRUE])
  /\ modals = <<>>
  /\ \E r \in RunIds :
       /\ runs[r].modal = 0
       /\ runs[r].files = <<>>
       /\ Insertions(r) # {}

\* C9: a request goes to basePath, then the sub-path, then the file name: the
\* sub-path is the text of the prompt at the submit, taken as it is; on the
\* direct path there is no sub-path and no empty segment, the file name
\* follows basePath.
C9_RequestPath ==
  \A r \in RunIds : \A i \in SlotIds(r) :
    runs[r].slots[i].request # None =>
      /\ runs[r].modal # 0 => runs[r].filePath \in SubPaths
      /\ runs[r].slots[i].request[1].url =
           <<"https://gitee.com/api/v5/repos/">> \o settings.repo \o <<"/contents/">>
             \o settings.path \o <<"/">>
             \o (IF runs[r].modal = 0 THEN <<>> ELSE runs[r].filePath \o <<"/">>)
             \o <<runs[r].files[i].name>>

\* C10: the stored sub-path is the value of the last keystroke of any prompt,
\* or its initial value while there was none; only a keystroke changes it
\* (no submit, dismissal or failure clears it); a prompt opens with its text
\* equal to the stored sub-path of that moment ('' when nothing is stored).
C10_RememberedSubPath ==
  [][/\ lastKey' # None => localStorage' = lastKey'
     /\ lastKey' = None => localStorage' = localStorage
     /\ localStorage' # localStorage =>
          /\ localStorage' # None
          /\ Len(modals') = Len(modals)
          /\ \E m \in 1..Len(modals) :
               /\ modals[m].open
               /\ modals'[m].filePath = localStorage'[1]
          /\ runs' = runs
     /\ Len(modals') > Len(modals) =>
          modals'[Len(modals')].filePath =
            IF localStorage = None THEN <<>> ELSE localStorage[1]]_vars

\* A second prompt, opened after "images" was typed in the first one, which
\* was then closed: it starts with "images".
C10_Witness ==
  /\ Len(modals) = 2
  /\ ~modals[1].open
  /\ modals[1].filePath = <<"images">>
  /\ modals[2].open
  /\ modals[2].filePath = <<"images">>
  /\ lastKey = Some(<<"images">>)
  /\ localStorage = Some(<<"images">>)


---------------------------------------------------------------------------
(* Settings *)

Fields == DOMAIN DEFAULT_SETTINGS

\* C11: saving the configuration and loading it again, the persisted data
\* being what saveSettings stored, gives a configuration equal to the saved
\* one field by field, empty strings and subPathable = false included.
C11_SaveLoadRoundTrip ==
  [][(Onload /\ data = Stored(settings))
       => \A k \in Fields : settings'[k] = settings[k]]_vars

\* A configuration with empty strings and subPathable = false was saved and
\* loaded again.
C11_Witness ==
  /\ loads > 1
  /\ DOMAIN data = Fields
  /\ settings.subPathable = FALSE
  /\ settings.repo = <<>>
  /\ settings.token = <<>>
  /\ settings.branch # DEFAULT_SETTINGS.branch
  /\ settings.path # DEFAULT_SETTINGS.path

\* C12: whatever the toggle changes and the events before it, an event with
\* files goes by the value subPathable has when the event is handled: to the
\* prompt if and only if it is true, to the direct upload if and only if it is
\* false.
C12_DispatchByCurrentFlag ==
  [][\A files \in EventFiles :
       (UploadFiles(files) /\ files # None /\ files # Some(<<>>)) =>
         /\ settings.subPathable <=>
              /\ Len(modals') = Len(modals) + 1
              /\ modals'[Len(modals')].open
              /\ runs' = runs
         /\ ~settings.subPathable <=>
              /\ Len(runs') = Len(runs) + 1
              /\ runs'[Len(runs')].modal = 0
              /\ modals' = modals]_vars

\* In one session an event went to the prompt, the toggle was changed, and
\* the next event went to the direct upload.
C12_Witness ==
  /\ loads = 1
  /\ Len(modals) = 1
  /\ ~modals[1].open
  /\ ~settings.subPathable
  /\ \E r \in RunIds : runs[r].modal = 0
  /\ event = Some([defaultPrevented |-> TRUE, propagationStopped |-> TRUE])

---------------------------------------------------------------------------
(* The order of settling, insertion and closing *)

\* Whether every promise of run r has resolved in the state rs of the runs.
Settled(rs, r) ==
  \A i \in 1..Len(rs[r].files) :
    rs[r].slots[i].state = "resolved" /\ rs[r].results[i] # None

\* Whether this step calls replaceSelection for run r.
Inserts(r) ==
  \E e \in BagToSet(editor') :
    e.run = r /\ CopiesIn(e, editor') = CopiesIn(e, editor) + 1

\* C13: the selection is replaced for a run only when every per-file
\* operation of the run has settled, never while one is pending; a modal that
\* closes without being dismissed closes in the step that inserts the text of
\* a run submitted from it, so never between the submit and the insertion.
C13_InsertAfterAllSettled ==
  /\ [](\A r \in RunIds : Insertions(r) # {} => Settled(runs, r))
  /\ [][/\ \A r \in 1..Len(runs') : Inserts(r) => Settled(runs', r)
        /\ \A m \in 1..Len(modals) :
             (m <= Len(modals') /\ modals[m].open /\ ~modals'[m].open) =>
               \/ runs' = runs /\ editor' = editor
               \/ \E r \in 1..Len(runs') :
                    /\ runs'[r].modal = m
                    /\ Settled(runs', r)
                    /\ Inserts(r)]_vars

\* A run submitted from a prompt with two accepted files: both have settled,
\* the text is inserted and the modal is closed.
C13_Witness ==
  \E r \in RunIds :
    /\ runs[r].modal # 0
    /\ Len(runs[r].files) = 2
    /\ Len(runs[r].order) = 2
    /\ Insertions(r) # {}
    /\ ~modals[runs[r].modal].open

---------------------------------------------------------------------------
(* The requests of a run *)

\* C14: in a run, a file gets a slot if and only if it is accepted; axios.post
\* is called exactly once for a file whose read has succeeded and not at all
\* while the read is pending or when it has failed; after a request has failed
\* no further request is made for the file.
C14_OneRequestPerFile ==
  /\ [](\A r \in RunIds :
          /\ runs[r].files = SelectSeq(runs[r].fileList,
                                       LAMBDA f : f.size <= MaxSize)
          /\ DOMAIN runs[r].slots = 1..Len(runs[r].files)
          /\ \A i \in SlotIds(r) :
               LET slot == runs[r].slots[i]
               IN /\ slot.posts =
                       IF slot.state = "reading" \/ ReadFailed(r, i) THEN 0 ELSE 1
                  /\ slot.posts = Len(slot.request))
  /\ [][\A r \in RunIds : \A i \in SlotIds(r) :
          UploadFailed(r, i) =>
            /\ runs'[r].slots[i].posts = runs[r].slots[i].posts
            /\ runs'[r].slots[i].request = runs[r].slots[i].request]_vars

\* A run that has ended, in which the read of one file failed and the
\* request of another file was refused by the server.
C14_Witness ==
  \E r \in RunIds :
    /\ runs[r].done
    /\ \E i, j \in SlotIds(r) :
         /\ ReadFailed(r, i) /\ runs[r].slots[i].posts = 0
         /\ UploadFailed(r, j) /\ runs[r].slots[j].posts = 1

---------------------------------------------------------------------------
(* Fan-out *)

\* C15: the reads of all accepted files of a run are started when the run
\* starts, before any read or request of the run has called back; and whatever
\* the state of the other files, also one whose read or request never calls
\* back, a pending read can complete and issue its request and a pending
\* request can settle.
C15_FanOut ==
  /\ [](\A r \in RunIds : \A i \in SlotIds(r) :
          /\ runs[r].slots[i].state = "reading"
               => ENABLED ReaderOnLoad(r, i) /\ ENABLED ReaderOnError(r, i)
          /\ runs[r].slots[i].state = "posting"
               => ENABLED AxiosThen(r, i) /\ ENABLED AxiosCatch(r, i))
  /\ [][\A r \in 1..Len(runs') :
          r > Len(runs) =>
            /\ DOMAIN runs'[r].slots = 1..Len(runs'[r].files)
            /\ \A i \in 1..Len(runs'[r].files) :
                 runs'[r].slots[i].state = "reading"]_vars

\* The second file of a run has been uploaded and its promise has resolved
\* while the read of the first file has not called back.
C15_Witness ==
  \E r \in RunIds :
    /\ Len(runs[r].files) = 2
    /\ runs[r].slots[1].state = "reading"
    /\ Succeeded(r, 2)
    /\ runs[r].results[2] # None
    /\ ~runs[r].done

---------------------------------------------------------------------------
(* The configuration in memory *)

\* C16: after startup, whatever loadData returned and whatever was changed in
\* the settings tab since, the configuration has all five fields, the strings
\* and the flag being of their types; a field the persisted data does not
\* have holds its default (branch master, path /, subPathable true, repo and
\* token empty) and a field it has holds the persisted value.
C16_CompleteSettings ==
  /\ DOMAIN settings = {"repo", "branch", "path", "token", "subPathable"}
  /\ settings.subPathable \in BOOLEAN
  /\ \A k \in {"repo", "branch", "path", "token"} : settings[k] \in Seq(STRING)
  /\ \A k \in {"repo", "branch", "path", "token", "subPathable"} :
       settings[k] =
         IF k \in DOMAIN data THEN data[k]
         ELSE CASE k = "repo" -> <<>>
                [] k = "branch" -> <<"master">>
                [] k = "path" -> <<"/">>
                [] k = "token" -> <<>>
                [] k = "subPathable" -> TRUE

\* The persisted data has one field only, which overrides its default, and
\* the other four fields hold their defaults, after an event was handled.
C16_Witness ==
  /\ DOMAIN data = {"subPathable"}
  /\ ~settings.subPathable
  /\ settings.branch = <<"master">>
  /\ settings.path = <<"/">>
  /\ event # None

---------------------------------------------------------------------------
(* One event, one upload *)

\* The runs started from modal m.
RunsOf(m) == {r \in RunIds : runs[r].modal = m}

\* C17: for one event that went to the prompt, whatever the user does with
\* the modal, each accepted file is sent at most once and the selection is
\* replaced at most once.
C17_AtMostOnce ==
  \A m \in 1..Len(modals) :
    /\ \A i \in 1..Len(modals[m].fileList) :
         Cardinality({r \in RunsOf(m) :
                        i \in SlotIds(r) /\ runs[r].slots[i].posts > 0}) <= 1
    /\ Cardinality({r \in RunsOf(m) : Insertions(r) # {}}) <= 1
    /\ \A e \in BagToSet(editor) : CopiesIn(e, editor) <= 1

---------------------------------------------------------------------------
(* Dismissal *)

\* C18 as amended: a run is started from a modal only by an activation of its
\* upload button while it is open.  So for a prompt dismissed without an
\* activation no read and no request is started and the selection is never
\* replaced, and a closed prompt starts no run; a run submitted while the
\* prompt was open still replaces the selection when it has settled.
C18_NoUploadWithoutSubmit ==
  /\ [](\A m \in 1..Len(modals) :
          /\ Cardinality(RunsOf(m)) = modals[m].submits
          /\ modals[m].submits = 0 =>
               \A r \in RunIds : Insertions(r) # {} => runs[r].modal # m)
  /\ [][\A m \in 1..Len(modals) :
          (m <= Len(modals') /\ ~modals[m].open) =>
            /\ ~modals'[m].open
            /\ modals'[m].submits = modals[m].submits
            /\ \A r \in 1..Len(runs') : r > Len(runs) => runs'[r].modal # m]_vars

\* A prompt was dismissed without an activation of its button; nothing was
\* started for it, and the next event was handled, submitted and inserted.
C18_Witness ==
  /\ Len(modals) = 2
  /\ ~modals[1].open
  /\ modals[1].submits = 0
  /\ RunsOf(1) = {}
  /\ \E r \in RunsOf(2) : runs[r].done /\ Insertions(r) # {}

\* C18: once a prompt is closed, no callback of a run of that prompt replaces
\* the selection.
C18_ClosedPromptIsSilent ==
  [][\A m \in 1..Len(modals) :
       (m <= Len(modals') /\ ~modals[m].open) =>
         \A r \in 1..Len(runs') : runs'[r].modal = m => ~Inserts(r)]_vars

---------------------------------------------------------------------------
(* The configuration of the requests of a run *)

\* C19: all requests of one run are built from one configuration: there are a
\* repo, a base path and a token from which the request of every file of the
\* run is built, also when the settings were changed while reads of the run
\* were pending.
C19_OneConfigurationPerRun ==
  \A r \in RunIds :
    \E repo \in Repos, path \in Paths, token \in Tokens :
      LET s == [settings EXCEPT !.repo = repo, !.path = path, !.token = token]
      IN \A i \in SlotIds(r) :
           runs[r].slots[i].request # None =>
             runs[r].slots[i].request[1] =
               Request(s, runs[r].filePath, runs[r].files[i])
====
